---- MODULE Spec2Model ----
(***************************************************************************)
(* A model of the authentication subsystem of AI-Meal-Planner.py:          *)
(* AuthManager (credential store, token store) and the Streamlit session   *)
(* bridge (session_state and the auth_token cookie).                       *)
(*                                                                         *)
(* Strings that the code inspects character by character (e-mail           *)
(* addresses and passwords) are sequences of code points.  A user's _id    *)
(* is its position in the users collection.  Every operation writes what   *)
(* it was called with and what it returned to the variable last, so that   *)
(* a state shows the outcome of the operation that led to it.              *)
(***************************************************************************)
EXTENDS Integers, Sequences, FiniteSets, TLC

VARIABLES
    users,          \* the users collection, in insertion order
    tokens,         \* the auth_tokens collection
    issued,         \* how many tokens secrets.token_urlsafe has produced
    now,            \* datetime.now(), in days
    reg,            \* per thread: a register_user call between its two store accesses
    session,        \* st.session_state of the observed browser session
    cookie,         \* the auth_token cookie of the observed browser (0: absent)
    cookiesReady,   \* cookies.ready() of the observed browser session
    last,           \* the last operation: its arguments and its result
    pwInput,        \* an argument of validate_password (pure-function checks)
    pwResult,       \* what validate_password returned for pwInput
    emailInput,     \* an argument of validate_email (pure-function checks)
    emailResult,    \* what validate_email returned for emailInput
    clients,        \* the MongoClient objects AuthManager constructed and never closed
    plans,          \* the meal_plans collection, in insertion order
    generated       \* how many meal plans generate_meal_plan has returned

vars == <<users, tokens, issued, now, reg, session, cookie, cookiesReady, last,
          pwInput, pwResult, emailInput, emailResult, clients, plans, generated>>

\* the variables that no operation of the authentication subsystem changes: those
\* of the checks of the validators, and the plan store
pwVars == <<pwInput, pwResult, emailInput, emailResult, plans, generated>>

authVars == <<users, tokens, issued, now, reg, session, cookie, cookiesReady, last,
             clients, plans, generated>>

(***************************************************************************)
(* Bounds of the model.                                                    *)
(***************************************************************************)
MaxUsers == 2

MaxTokens == 2

MaxDays == 45

TickDays == 15

MaxPwLen == 8

MaxEmailLen == 7

MaxClients == 2

MaxPlans == 2

MaxSaved == 2

(***************************************************************************)
(* Character classes of the regular expressions.                           *)
(***************************************************************************)
IsUpper(c) == c \in 65..90

IsLower(c) == c \in 97..122

IsDigit(c) == c \in 48..57

IsLetter(c) == IsUpper(c) \/ IsLower(c)

\* [!@#$%^&*()_+-=] : inside a character class "+-=" is the range from '+' to '='
SpecialClass == {33, 64, 35, 36, 37, 94, 38, 42, 40, 41, 95} \cup (43..61)

\* [a-zA-Z0-9._%+-]
LocalClass(c) == IsLetter(c) \/ IsDigit(c) \/ c \in {46, 95, 37, 43, 45}

\* [a-zA-Z0-9.-]
DomainClass(c) == IsLetter(c) \/ IsDigit(c) \/ c \in {46, 45}

\* re.search(r"[...]", s) is not None
Search(class, s) == \E i \in 1..Len(s) : s[i] \in class

(***************************************************************************)
(* AuthManager.validate_email: re.match of                                 *)
(* ^[a-zA-Z0-9._%+-]+@[a-zA-Z0-9.-]+\.[a-zA-Z]{2,}$ ; "$" also matches      *)
(* before a final newline.                                                 *)
(***************************************************************************)
MatchesUpTo(email, n) ==
    \E i \in 2..n : \E j \in (i + 2)..(n - 2) :
        /\ email[i] = 64
        /\ email[j] = 46
        /\ \A k \in 1..(i - 1) : LocalClass(email[k])
        /\ \A k \in (i + 1)..(j - 1) : DomainClass(email[k])
        /\ \A k \in (j + 1)..n : IsLetter(email[k])

validate_email(email) ==
    \/ MatchesUpTo(email, Len(email))
    \/ /\ Len(email) >= 1
       /\ email[Len(email)] = 10
       /\ MatchesUpTo(email, Len(email) - 1)

(***************************************************************************)
(* AuthManager.validate_password: (is_valid, message).                     *)
(***************************************************************************)
validate_password(password) ==
    IF Len(password) < 8
    THEN [ok |-> FALSE, message |-> "Password must be at least 8 characters long"]
    ELSE IF ~Search(65..90, password)
    THEN [ok |-> FALSE, message |-> "Password must contain at least one uppercase letter"]
    ELSE IF ~Search(97..122, password)
    THEN [ok |-> FALSE, message |-> "Password must contain at least one lowercase letter"]
    ELSE IF ~Search(48..57, password)
    THEN [ok |-> FALSE, message |-> "Password must contain at least one digit"]
    ELSE IF ~Search(SpecialClass, password)
    THEN [ok |-> FALSE,
          message |-> "Password must contain at least one special character (!@#$%^&*()_+-=)"]
    ELSE [ok |-> TRUE, message |-> "Password is valid"]

(***************************************************************************)
(* Inputs of the model: what the forms and the callers submit.             *)
(***************************************************************************)
\* "a@b.co", "A@b.co" (the same address in another letter case), "a@@b"
EmailA == <<97, 64, 98, 46, 99, 111>>

EmailAUpper == <<65, 64, 98, 46, 99, 111>>

EmailBad == <<97, 64, 64, 98>>

Emails == {EmailA, EmailAUpper, EmailBad}

\* "Valid123!", "NoSpecial123", "short1!"
PwValid == <<86, 97, 108, 105, 100, 49, 50, 51, 33>>

PwNoSpecial == <<78, 111, 83, 112, 101, 99, 105, 97, 108, 49, 50, 51>>

PwShort == <<115, 104, 111, 114, 116, 49, 33>>

Passwords == {PwValid, PwNoSpecial, PwShort}

\* the passwords submitted to the credential store: one the policy accepts, one it rejects
FormPasswords == {PwValid, PwShort}

\* thread 1 runs the script of the observed browser session, the others those of
\* other sessions
Threads == {1, 2, 3}

UsernameOf(p) == CASE p = 1 -> "alice" [] p = 2 -> "bob" [] OTHER -> "carol"

\* get_mongo_client() returned a client ("none"), returned None without having
\* constructed one ("unreachable": no MONGODB_URI, or MongoClient raised), or returned
\* a client on which a later call raised ("error")
Faults == {"none", "unreachable", "error"}

\* and get_mongo_client() returned None because the ping raised, after MongoClient
\* had constructed the client ("ping_failed")
ConnFaults == Faults \cup {"ping_failed"}

\* the faults with which get_mongo_client returns None
NoClient == {"unreachable", "ping_failed"}

(***************************************************************************)
(* AuthManager.get_mongo_client: whether a MongoClient was constructed     *)
(* (line 41), whether it was closed by get_mongo_client, and whether it    *)
(* was returned to the caller.                                             *)
(***************************************************************************)
get_mongo_client(f) ==
    [constructed |-> f # "unreachable", closed |-> FALSE, returned |-> f \notin NoClient]

\* the clients that a call with one store access leaves open when it has returned:
\* a caller closes the client it was given in its finally clause
ClientsLeftOpen(f) ==
    LET c == get_mongo_client(f)
    IN  IF c.constructed /\ ~c.closed /\ ~c.returned THEN 1 ELSE 0

\* the handler leaves n more clients open
LeavesOpen(n) == clients + n <= MaxClients /\ clients' = clients + n

\* bcrypt.gensalt()
Salts == {1}

NoInfo == [username |-> "", email |-> <<>>, user_id |-> 0]

\* None for a meal plan; a history entry is its content (id) and, for the
\* properties, the user for whom it was generated or loaded (owner)
NoPlan == [id |-> 0, owner |-> 0]

NoLast ==
    [op |-> "init", proc |-> 0, username |-> "", email |-> <<>>, password |-> <<>>,
     token |-> 0, user_id |-> 0, fault |-> "none", checkFault |-> "none",
     ok |-> FALSE, message |-> "", info |-> NoInfo,
     existed |-> FALSE, existedAtInsert |-> FALSE,
     followsRegister |-> FALSE, registeredAs |-> "",
     remember |-> FALSE, restored |-> FALSE,
     heldSession |-> 0, heldCookie |-> 0,
     data |-> NoPlan, loaded |-> <<>>, caller |-> 0]

IdleCall ==
    [pc |-> "idle", email |-> <<>>, password |-> <<>>, checkFault |-> "none",
     existed |-> FALSE]

(***************************************************************************)
(* AuthManager.hash_password / verify_password: bcrypt keeps the salt in   *)
(* the hash and verification recomputes the digest with that salt.         *)
(***************************************************************************)
hash_password(password, salt) == [salt |-> salt, digest |-> <<salt, password>>]

\* the stored hash compared with the password itself
verify_password_plain(password, hashed) == hashed.digest = password

verify_password(password, hashed) == hash_password(password, hashed.salt) = hashed

(***************************************************************************)
(* AuthManager.user_exists: False when the store cannot be reached or the  *)
(* query raises.                                                           *)
(***************************************************************************)
HasEmail(email) == \E i \in 1..Len(users) : users[i].email = email

\* the existence check looking at active users only
user_exists_active(email, f) ==
    f = "none" /\ \E i \in 1..Len(users) : users[i].email = email /\ users[i].is_active

user_exists(email, f) == f = "none" /\ HasEmail(email)

(***************************************************************************)
(* AuthManager.register_user, first part (lines 90-98): the validations    *)
(* and the existence check.  The call returns here on a failure; otherwise *)
(* it goes on to its own connection and the insert.                        *)
(***************************************************************************)
RegisterFails(email, password, f) ==
    \/ ~validate_email(email)
    \/ ~validate_password(password).ok
    \/ user_exists(email, f)

RegisterFailure(email, password) ==
    IF ~validate_email(email) THEN "Invalid email format"
    ELSE IF ~validate_password(password).ok THEN validate_password(password).message
    ELSE "User with this email already exists"

InFlight == Cardinality({p \in Threads : reg[p].pc = "checked"})

\* the registration form is on the page of the observed session
RegisterFormShown ==
    cookiesReady /\ ~session.authenticated /\ session.show_register

RegCheck(p, email, password, f) ==
    /\ reg[p].pc = "idle"
    /\ p = 1 => RegisterFormShown
    /\ IF RegisterFails(email, password, f)
       THEN /\ last' = [NoLast EXCEPT !.op = "register_user", !.proc = p,
                           !.username = UsernameOf(p), !.email = email,
                           !.password = password,
                           !.checkFault = IF validate_email(email)
                                             /\ validate_password(password).ok
                                          THEN f ELSE "none",
                           !.existed = HasEmail(email),
                           !.existedAtInsert = HasEmail(email),
                           !.ok = FALSE,
                           !.message = RegisterFailure(email, password)]
            /\ reg' = reg
       ELSE /\ Len(users) + InFlight < MaxUsers
            /\ reg' = [reg EXCEPT ![p] = [pc |-> "checked", email |-> email,
                                          password |-> password, checkFault |-> f,
                                          existed |-> HasEmail(email)]]
            /\ last' = [NoLast EXCEPT !.op = "user_exists", !.proc = p,
                           !.email = email, !.fault = f, !.ok = FALSE,
                           !.existed = HasEmail(email)]
    /\ LeavesOpen(IF validate_email(email) /\ validate_password(password).ok
                  THEN ClientsLeftOpen(f) ELSE 0)
    /\ UNCHANGED <<pwVars, users, tokens, issued, now, session, cookie, cookiesReady>>

(***************************************************************************)
(* AuthManager.register_user, second part (lines 100-122): connect, insert *)
(* the user document, close.  show_register_form (lines 333-337) goes back *)
(* to the login form on success.                                           *)
(***************************************************************************)
\* a user document that starts deactivated
NewUser_inactive(username, email, password, salt) ==
    [username |-> username, email |-> email,
     password |-> hash_password(password, salt), is_active |-> FALSE]

NewUser(username, email, password, salt) ==
    [username |-> username, email |-> email,
     password |-> hash_password(password, salt), is_active |-> TRUE]

RegInsert(p, f, salt) ==
    /\ reg[p].pc = "checked"
    /\ users' = IF f = "none"
                THEN Append(users, NewUser(UsernameOf(p), reg[p].email,
                                           reg[p].password, salt))
                ELSE users
    /\ last' = [NoLast EXCEPT !.op = "register_user", !.proc = p,
                   !.username = UsernameOf(p), !.email = reg[p].email,
                   !.password = reg[p].password, !.fault = f,
                   !.checkFault = reg[p].checkFault,
                   !.existed = reg[p].existed,
                   !.existedAtInsert = HasEmail(reg[p].email),
                   !.ok = (f = "none"),
                   !.message = CASE f = "none" -> "User registered successfully"
                                 [] f \in NoClient -> "Database connection failed"
                                 [] OTHER -> "Registration failed: <exception>"]
    /\ reg' = [reg EXCEPT ![p] = IdleCall]
    /\ session' = IF p = 1 /\ f = "none"
                  THEN [session EXCEPT !.show_register = FALSE]
                  ELSE session
    /\ LeavesOpen(ClientsLeftOpen(f))
    /\ UNCHANGED <<pwVars, tokens, issued, now, cookie, cookiesReady>>

(***************************************************************************)
(* AuthManager.authenticate_user: find_one({"email", "is_active": True})   *)
(* returns some matching document; with several it is the store's choice.  *)
(***************************************************************************)
UserInfo(i) == [username |-> users[i].username, email |-> users[i].email, user_id |-> i]

AuthOutcome(ok, message, info) == [ok |-> ok, message |-> message, info |-> info]

\* a lookup by e-mail alone, with a message of its own for a deactivated account
authenticate_user_disabled(email, password, f) ==
    IF f \in NoClient
    THEN {AuthOutcome(FALSE, "Database connection failed", NoInfo)}
    ELSE IF f = "error"
    THEN {AuthOutcome(FALSE, "Authentication failed: <exception>", NoInfo)}
    ELSE LET found == {i \in 1..Len(users) : users[i].email = email}
         IN  IF found = {}
             THEN {AuthOutcome(FALSE, "Invalid email or password", NoInfo)}
             ELSE {IF ~users[i].is_active
                   THEN AuthOutcome(FALSE, "Account is disabled", NoInfo)
                   ELSE IF verify_password(password, users[i].password)
                   THEN AuthOutcome(TRUE, "Login successful", UserInfo(i))
                   ELSE AuthOutcome(FALSE, "Invalid email or password", NoInfo)
                   : i \in found}

\* a login that does not compare the password
authenticate_user_any_password(email, password, f) ==
    IF f \in NoClient
    THEN {AuthOutcome(FALSE, "Database connection failed", NoInfo)}
    ELSE IF f = "error"
    THEN {AuthOutcome(FALSE, "Authentication failed: <exception>", NoInfo)}
    ELSE LET found == {i \in 1..Len(users) :
                          users[i].email = email /\ users[i].is_active}
         IN  IF found = {}
             THEN {AuthOutcome(FALSE, "Invalid email or password", NoInfo)}
             ELSE {AuthOutcome(TRUE, "Login successful", UserInfo(i)) : i \in found}

authenticate_user(email, password, f) ==
    IF f \in NoClient
    THEN {AuthOutcome(FALSE, "Database connection failed", NoInfo)}
    ELSE IF f = "error"
    THEN {AuthOutcome(FALSE, "Authentication failed: <exception>", NoInfo)}
    ELSE LET found == {i \in 1..Len(users) :
                          users[i].email = email /\ users[i].is_active}
         IN  IF found = {}
             THEN {AuthOutcome(FALSE, "Invalid email or password", NoInfo)}
             ELSE {IF verify_password(password, users[i].password)
                   THEN AuthOutcome(TRUE, "Login successful", UserInfo(i))
                   ELSE AuthOutcome(FALSE, "Invalid email or password", NoInfo)
                   : i \in found}

\* the operation before this one registered these credentials under an e-mail
\* address that no user record had
FollowsRegister(email, password) ==
    /\ last.op = "register_user"
    /\ last.ok
    /\ ~last.existedAtInsert
    /\ last.email = email
    /\ last.password = password

\* a call of authenticate_user from another session
Authenticate(email, password, f) ==
    /\ \E r \in authenticate_user(email, password, f) :
          last' = [NoLast EXCEPT !.op = "authenticate_user", !.email = email,
                      !.password = password, !.fault = f, !.ok = r.ok,
                      !.message = r.message, !.info = r.info,
                      !.followsRegister = FollowsRegister(email, password),
                      !.registeredAs = IF FollowsRegister(email, password)
                                       THEN last.username ELSE ""]
    /\ LeavesOpen(ClientsLeftOpen(f))
    /\ UNCHANGED <<pwVars, users, tokens, issued, now, reg, session, cookie, cookiesReady>>

(***************************************************************************)
(* AuthManager.generate_token: the token is drawn before the store is      *)
(* reached; a token_urlsafe(32) value is one never drawn before.           *)
(***************************************************************************)
expiry_days == 30

TokenDoc(token, user_id, days) ==
    [token |-> token, user_id |-> user_id, created_at |-> now,
     expires_at |-> now + days]

\* the token returned although the store was not reached or the insert raised
generate_token_always(f) == issued + 1

\* the token returned (0: None)
generate_token(f) == IF f = "none" THEN issued + 1 ELSE 0

TokensAfterGenerate(user_id, days, f) ==
    IF f = "none" THEN tokens \cup {TokenDoc(issued + 1, user_id, days)} ELSE tokens

\* generate_token(user_id, expiry_days=days): the argument is used as it is given
GenerateToken(user_id, days, f) ==
    /\ issued < MaxTokens
    /\ issued' = issued + 1
    /\ tokens' = TokensAfterGenerate(user_id, days, f)
    /\ last' = [NoLast EXCEPT !.op = "generate_token", !.user_id = user_id,
                   !.fault = f, !.token = generate_token(f),
                   !.ok = (generate_token(f) # 0)]
    /\ LeavesOpen(ClientsLeftOpen(f))
    /\ UNCHANGED <<pwVars, users, now, reg, session, cookie, cookiesReady>>

(***************************************************************************)
(* AuthManager.validate_token: the user info, or NoInfo for None.          *)
(***************************************************************************)
\* "$gte" in place of "$gt": a token still valid at the instant it expires
validate_token_inclusive(token, f) ==
    IF token = 0 \/ f # "none"
    THEN NoInfo
    ELSE LET docs == {d \in tokens : d.token = token /\ d.expires_at >= now}
         IN  IF docs = {}
             THEN NoInfo
             ELSE LET uid == (CHOOSE d \in docs : TRUE).user_id
                  IN  IF uid \in 1..Len(users) /\ users[uid].is_active
                      THEN UserInfo(uid)
                      ELSE NoInfo

\* the user looked up by _id alone, without "is_active": True
validate_token_any_user(token, f) ==
    IF token = 0 \/ f # "none"
    THEN NoInfo
    ELSE LET docs == {d \in tokens : d.token = token /\ d.expires_at > now}
         IN  IF docs = {}
             THEN NoInfo
             ELSE LET uid == (CHOOSE d \in docs : TRUE).user_id
                  IN  IF uid \in 1..Len(users) THEN UserInfo(uid) ELSE NoInfo

validate_token(token, f) ==
    IF token = 0 \/ f # "none"
    THEN NoInfo
    ELSE LET docs == {d \in tokens : d.token = token /\ d.expires_at > now}
         IN  IF docs = {}
             THEN NoInfo
             ELSE LET uid == (CHOOSE d \in docs : TRUE).user_id
                  IN  IF uid \in 1..Len(users) /\ users[uid].is_active
                      THEN UserInfo(uid)
                      ELSE NoInfo

\* a validation that renews the token it accepts for another expiry_days
TokensAfterValidate_sliding(token, f) ==
    IF validate_token(token, f) = NoInfo
    THEN tokens
    ELSE {IF d.token = token THEN [d EXCEPT !.expires_at = now + expiry_days] ELSE d
          : d \in tokens}

\* the token store after validate_token: the call makes two find_one queries and
\* no update
TokensAfterValidate(token, f) == tokens

ValidateToken(token, f) ==
    /\ tokens' = TokensAfterValidate(token, f)
    /\ last' = [NoLast EXCEPT !.op = "validate_token", !.token = token, !.fault = f,
                   !.info = validate_token(token, f),
                   !.ok = (validate_token(token, f) # NoInfo)]
    /\ LeavesOpen(IF token # 0 THEN ClientsLeftOpen(f) ELSE 0)
    /\ UNCHANGED <<pwVars, users, issued, now, reg, session, cookie, cookiesReady>>

(***************************************************************************)
(* AuthManager.revoke_token: delete_one({"token": token}); nothing is      *)
(* reported when the store cannot be reached or the delete raises.         *)
(***************************************************************************)
\* a delete filter that matches no document
revoke_token_no_match(token, f) == tokens

\* a delete of every token of the user whose token this is
revoke_token_of_user(token, f) ==
    IF token = 0 \/ f # "none"
    THEN tokens
    ELSE {d \in tokens : \A e \in tokens : e.token = token => d.user_id # e.user_id}

revoke_token(token, f) ==
    IF token = 0 \/ f # "none"
    THEN tokens
    ELSE {d \in tokens : d.token # token}

RevokeToken(token, f) ==
    /\ tokens' = revoke_token(token, f)
    /\ last' = [NoLast EXCEPT !.op = "revoke_token", !.token = token, !.fault = f,
                   !.ok = TRUE,
                   !.existed = (\E d \in tokens : d.token = token)]
    /\ LeavesOpen(IF token # 0 THEN ClientsLeftOpen(f) ELSE 0)
    /\ UNCHANGED <<pwVars, users, issued, now, reg, session, cookie, cookiesReady>>

(***************************************************************************)
(* The plan store: get_current_user_id, save_to_mongo, load_from_mongo.    *)
(* A document of meal_plans is the user_id and the username it was saved   *)
(* with and the plan's content.                                            *)
(***************************************************************************)
history_limit == 20

refresh_limit == 50

\* get_current_user_id for the session state s (0: None)
get_current_user_id(s) ==
    IF s.authenticated /\ s.user_info # NoInfo THEN s.user_info.user_id ELSE 0

Reverse(q) == [k \in 1..Len(q) |-> q[Len(q) + 1 - k]]

Take(q, n) == IF Len(q) <= n THEN q ELSE SubSeq(q, 1, n)

\* the history entry made from a document of meal_plans
EntryOf(d) == [id |-> d.id, owner |-> d.user_id]

\* a find without the user_id filter
load_from_mongo_all(s, limit, f) ==
    IF get_current_user_id(s) = 0 \/ f # "none"
    THEN <<>>
    ELSE LET found == Take(Reverse(plans), limit)
         IN  [k \in 1..Len(found) |-> EntryOf(found[k])]

\* load_from_mongo: the user's documents, the latest first, at most limit of them
load_from_mongo(s, limit, f) ==
    IF get_current_user_id(s) = 0 \/ f # "none"
    THEN <<>>
    ELSE LET mine(d) == d.user_id = get_current_user_id(s)
             found == Take(Reverse(SelectSeq(plans, mine)), limit)
         IN  [k \in 1..Len(found) |-> EntryOf(found[k])]

\* save_to_mongo: what it returns and the collection afterwards
save_to_mongo(s, data, f) ==
    IF data = NoPlan \/ get_current_user_id(s) = 0 \/ f # "none"
    THEN [ok |-> FALSE, plans |-> plans]
    ELSE [ok |-> TRUE,
          plans |-> Append(plans, [user_id |-> get_current_user_id(s),
                                   username |-> s.user_info.username,
                                   id |-> data.id])]

\* main, lines 688-696: the history of an authenticated session loaded when the
\* session has none
LoadedSession(s, fl) ==
    IF s.history = <<>> /\ load_from_mongo(s, history_limit, fl) # <<>>
    THEN [s EXCEPT !.history = load_from_mongo(s, history_limit, fl),
                   !.latest_plan = load_from_mongo(s, history_limit, fl)[1]]
    ELSE s

(***************************************************************************)
(* The observed browser session: st.session_state and the cookie store.    *)
(***************************************************************************)
\* init_session_state
InitSession ==
    [authenticated |-> FALSE, user_info |-> NoInfo, show_register |-> FALSE,
     history |-> <<>>, latest_plan |-> NoPlan, auth_token |-> 0]

\* require_authentication, lines 388-397: st.session_state after the attempt to
\* restore the session from the cookie
\* the restore without line 397: the session does not record the cookie's token
RestoredSession_no_token(f) ==
    IF ~session.authenticated /\ cookie # 0 /\ validate_token(cookie, f) # NoInfo
    THEN [session EXCEPT !.authenticated = TRUE,
                         !.user_info = validate_token(cookie, f)]
    ELSE session

\* the restore without line 396: the session does not record the token's user
RestoredSession_no_user_info(f) ==
    IF ~session.authenticated /\ cookie # 0 /\ validate_token(cookie, f) # NoInfo
    THEN [session EXCEPT !.authenticated = TRUE, !.auth_token = cookie]
    ELSE session

\* a restore that also validates the token of a session that is authenticated, and
\* ends the session when the token no longer validates
RestoredSession_revalidating(f) ==
    IF ~session.authenticated /\ cookie # 0 /\ validate_token(cookie, f) # NoInfo
    THEN [session EXCEPT !.authenticated = TRUE,
                         !.user_info = validate_token(cookie, f),
                         !.auth_token = cookie]
    ELSE IF session.authenticated /\ session.auth_token # 0
            /\ validate_token(session.auth_token, f) = NoInfo
    THEN [session EXCEPT !.authenticated = FALSE, !.user_info = NoInfo,
                         !.auth_token = 0]
    ELSE session

RestoredSession(f) ==
    IF ~session.authenticated /\ cookie # 0 /\ validate_token(cookie, f) # NoInfo
    THEN [session EXCEPT !.authenticated = TRUE,
                         !.user_info = validate_token(cookie, f),
                         !.auth_token = cookie]
    ELSE session

\* the script is not inside a register_user call
ScriptIdle == reg[1].pc = "idle"

\* a browser (re)load: a new st.session_state, a cookie manager that is not ready
NewSession ==
    /\ ScriptIdle
    /\ session' = InitSession
    /\ cookiesReady' = FALSE
    /\ last' = [NoLast EXCEPT !.op = "new_session"]
    /\ UNCHANGED <<pwVars, clients, users, tokens, issued, now, reg, cookie>>

\* the cookie manager component has sent the browser's cookies
CookiesBecomeReady ==
    /\ ~cookiesReady
    /\ cookiesReady' = TRUE
    /\ last' = [NoLast EXCEPT !.op = "cookies_ready"]
    /\ UNCHANGED <<pwVars, clients, users, tokens, issued, now, reg, session, cookie>>

\* require_authentication, lines 385-386: st.stop()
PageNotReady ==
    /\ ScriptIdle
    /\ ~cookiesReady
    /\ last' = [NoLast EXCEPT !.op = "page_stopped"]
    /\ UNCHANGED <<pwVars, clients, users, tokens, issued, now, reg, session, cookie, cookiesReady>>

\* a script run with no form submitted: require_authentication and, for an
\* authenticated session, the history load of main (lines 688-696)
PageCycle(f, fl) ==
    /\ ScriptIdle
    /\ cookiesReady
    /\ session' = IF RestoredSession(f).authenticated
                  THEN LoadedSession(RestoredSession(f), fl)
                  ELSE RestoredSession(f)
    /\ tokens' = IF ~session.authenticated /\ cookie # 0
                 THEN TokensAfterValidate(cookie, f)
                 ELSE tokens
    /\ last' = [NoLast EXCEPT !.op = "page", !.fault = f, !.token = cookie,
                   !.restored = (RestoredSession(f) # session),
                   !.heldSession = session.auth_token, !.heldCookie = cookie]
    /\ LeavesOpen(IF ~session.authenticated /\ cookie # 0
                  THEN ClientsLeftOpen(f) ELSE 0)
    /\ UNCHANGED <<pwVars, users, issued, now, reg, cookie, cookiesReady>>

\* the login form is on the page: the session is not authenticated and the restore
\* of this script run (store fault fv) does not authenticate it
\* the login form shown without waiting for the cookie store
LoginFormShown_unready(fv) ==
    /\ ScriptIdle
    /\ ~session.authenticated
    /\ RestoredSession(fv) = session
    /\ ~session.show_register

LoginFormShown(fv) ==
    /\ ScriptIdle
    /\ cookiesReady
    /\ ~session.authenticated
    /\ RestoredSession(fv) = session
    /\ ~session.show_register

\* show_login_form, lines 269-291
LoginSubmit(email, password, remember_me, fv, fa, fg) ==
    /\ LoginFormShown(fv)
    /\ remember_me => issued < MaxTokens
    /\ \E r \in authenticate_user(email, password, fa) :
          LET token == IF r.ok /\ remember_me THEN generate_token(fg) ELSE 0
          IN  /\ session' = IF r.ok
                            THEN [session EXCEPT
                                     !.authenticated = TRUE,
                                     !.user_info = r.info,
                                     !.auth_token = IF token # 0 THEN token ELSE @]
                            ELSE session
              /\ cookie' = IF token # 0 THEN token ELSE cookie
              /\ issued' = IF r.ok /\ remember_me THEN issued + 1 ELSE issued
              /\ tokens' = IF r.ok /\ remember_me
                           THEN TokensAfterGenerate(r.info.user_id, expiry_days, fg)
                           ELSE tokens
              /\ last' = [NoLast EXCEPT !.op = "login", !.email = email,
                             !.password = password, !.remember = remember_me,
                             !.fault = fa, !.ok = r.ok, !.message = r.message,
                             !.info = r.info, !.token = token,
                             !.heldSession = session.auth_token, !.heldCookie = cookie]
              /\ LeavesOpen((IF cookie # 0 THEN ClientsLeftOpen(fv) ELSE 0)
                            + ClientsLeftOpen(fa)
                            + (IF r.ok /\ remember_me THEN ClientsLeftOpen(fg) ELSE 0))
    /\ UNCHANGED <<pwVars, users, now, reg, cookiesReady>>

\* show_login_form, lines 295-297 and show_register_form, lines 343-345
ToggleRegister ==
    /\ ScriptIdle
    /\ cookiesReady
    /\ ~session.authenticated
    /\ session' = [session EXCEPT !.show_register = ~@]
    /\ last' = [NoLast EXCEPT !.op = "toggle_register"]
    /\ UNCHANGED <<pwVars, clients, users, tokens, issued, now, reg, cookie, cookiesReady>>

\* a logout that leaves the meal plans in the session
LoggedOutSession_keeps_plans ==
    [session EXCEPT !.authenticated = FALSE, !.user_info = NoInfo,
                    !.show_register = FALSE, !.auth_token = 0]

\* show_user_info, lines 368-375: the session state cleared
LoggedOutSession ==
    [session EXCEPT !.authenticated = FALSE, !.user_info = NoInfo,
                    !.show_register = FALSE, !.auth_token = 0,
                    !.history = <<>>, !.latest_plan = NoPlan]

\* show_user_info, lines 358-377
Logout(f) ==
    /\ ScriptIdle
    /\ cookiesReady
    /\ session.authenticated
    /\ session.user_info # NoInfo
    /\ tokens' = IF session.auth_token # 0
                 THEN revoke_token(session.auth_token, f)
                 ELSE tokens
    /\ cookie' = 0
    /\ session' = LoggedOutSession
    /\ last' = [NoLast EXCEPT !.op = "logout", !.fault = f,
                   !.heldSession = session.auth_token, !.heldCookie = cookie]
    /\ LeavesOpen(IF session.auth_token # 0 THEN ClientsLeftOpen(f) ELSE 0)
    /\ UNCHANGED <<pwVars, users, issued, now, reg, cookiesReady>>

(***************************************************************************)
(* The handlers of main on the page of an authenticated session.           *)
(***************************************************************************)
\* a script run of an authenticated session reaches the page of main
MainShown ==
    /\ ScriptIdle
    /\ cookiesReady
    /\ session.authenticated

\* a new plan put at the end of the history
WithNewPlan_appended(s, entry) ==
    [s EXCEPT !.latest_plan = entry, !.history = Append(@, entry)]

\* main, lines 777-778
WithNewPlan(s, entry) ==
    [s EXCEPT !.latest_plan = entry, !.history = <<entry>> \o @]

\* main, lines 751-779: the form submitted; generate_meal_plan returns a plan (ok)
\* or None
GeneratePlan(fl, ok) ==
    /\ MainShown
    /\ generated < MaxPlans
    /\ LET s == LoadedSession(session, fl)
           entry == [id |-> generated + 1, owner |-> get_current_user_id(s)]
       IN  /\ session' = IF ok THEN WithNewPlan(s, entry) ELSE s
           /\ last' = [NoLast EXCEPT !.op = "generate_plan", !.ok = ok, !.fault = fl,
                          !.data = IF ok THEN entry ELSE NoPlan,
                          !.caller = get_current_user_id(s)]
    /\ generated' = IF ok THEN generated + 1 ELSE generated
    /\ UNCHANGED <<users, tokens, issued, now, reg, cookie, cookiesReady, clients,
                   plans, pwInput, pwResult, emailInput, emailResult>>

\* main, lines 788-797: Save Plan (the fallback to the Google sheet is not part of
\* the model)
SavePlan(fl, f) ==
    /\ MainShown
    /\ Len(plans) < MaxSaved
    /\ LET s == LoadedSession(session, fl)
       IN  /\ s.latest_plan # NoPlan
           /\ session' = s
           /\ plans' = save_to_mongo(s, s.latest_plan, f).plans
           /\ last' = [NoLast EXCEPT !.op = "save_plan", !.fault = f,
                          !.ok = save_to_mongo(s, s.latest_plan, f).ok,
                          !.data = s.latest_plan,
                          !.caller = get_current_user_id(s)]
    /\ UNCHANGED <<users, tokens, issued, now, reg, cookie, cookiesReady, clients,
                   generated, pwInput, pwResult, emailInput, emailResult>>

\* main, lines 801-809: Refresh from Database
RefreshFromDatabase(fl, f) ==
    /\ MainShown
    /\ LET s == LoadedSession(session, fl)
           loaded == load_from_mongo(s, refresh_limit, f)
       IN  /\ session' = IF loaded # <<>>
                         THEN [s EXCEPT !.history = loaded, !.latest_plan = loaded[1]]
                         ELSE s
           /\ last' = [NoLast EXCEPT !.op = "refresh", !.fault = f,
                          !.ok = (loaded # <<>>), !.loaded = loaded,
                          !.caller = get_current_user_id(s)]
    /\ UNCHANGED <<pwVars, users, tokens, issued, now, reg, cookie, cookiesReady, clients>>

\* main, lines 811-814: Clear History
ClearHistory(fl) ==
    /\ MainShown
    /\ session' = [LoadedSession(session, fl) EXCEPT !.history = <<>>,
                                                    !.latest_plan = NoPlan]
    /\ last' = [NoLast EXCEPT !.op = "clear_history", !.fault = fl]
    /\ UNCHANGED <<pwVars, users, tokens, issued, now, reg, cookie, cookiesReady, clients>>

\* a call of save_to_mongo, whatever the session state
SaveToMongo(data, f) ==
    /\ ScriptIdle
    /\ Len(plans) < MaxSaved
    /\ plans' = save_to_mongo(session, data, f).plans
    /\ last' = [NoLast EXCEPT !.op = "save_to_mongo", !.fault = f,
                   !.ok = save_to_mongo(session, data, f).ok, !.data = data,
                   !.caller = get_current_user_id(session)]
    /\ UNCHANGED <<users, tokens, issued, now, reg, session, cookie, cookiesReady,
                   clients, generated, pwInput, pwResult, emailInput, emailResult>>

\* a call of load_from_mongo, whatever the session state
LoadFromMongo(limit, f) ==
    /\ ScriptIdle
    /\ last' = [NoLast EXCEPT !.op = "load_from_mongo", !.fault = f,
                   !.ok = (load_from_mongo(session, limit, f) # <<>>),
                   !.loaded = load_from_mongo(session, limit, f),
                   !.caller = get_current_user_id(session)]
    /\ UNCHANGED <<pwVars, users, tokens, issued, now, reg, session, cookie,
                   cookiesReady, clients>>

(***************************************************************************)
(* The environment: the clock, and an administrator deactivating a user.   *)
(***************************************************************************)
Tick ==
    /\ now + TickDays <= MaxDays
    /\ now' = now + TickDays
    /\ last' = [NoLast EXCEPT !.op = "tick"]
    /\ UNCHANGED <<pwVars, clients, users, tokens, issued, reg, session, cookie, cookiesReady>>

Deactivate(i) ==
    /\ users[i].is_active
    /\ users' = [users EXCEPT ![i].is_active = FALSE]
    /\ last' = [NoLast EXCEPT !.op = "deactivate", !.user_id = i]
    /\ UNCHANGED <<pwVars, clients, tokens, issued, now, reg, session, cookie, cookiesReady>>

(***************************************************************************)
(* The specifications.  All start in the state after construction and take *)
(* their steps from the operations above; each one draws the operations'   *)
(* arguments from the sets that the properties checked under it are about. *)
(***************************************************************************)
NotCalled == [ok |-> FALSE, message |-> "not called"]

EmailNotChecked == [called |-> FALSE, ok |-> FALSE]

Init ==
    /\ users = <<>>
    /\ tokens = {}
    /\ issued = 0
    /\ now = 0
    /\ reg = [p \in Threads |-> IdleCall]
    /\ session = InitSession
    /\ cookie = 0
    /\ cookiesReady = FALSE
    /\ last = NoLast
    /\ pwInput = <<>>
    /\ pwResult = NotCalled
    /\ emailInput = <<>>
    /\ emailResult = EmailNotChecked
    /\ clients = 0
    /\ plans = <<>>
    /\ generated = 0

\* Accounts: registrations from two sessions racing with each other, with store
\* faults, and logins against the resulting credential store.
NextAccounts ==
    \/ \E p \in {2, 3}, email \in Emails, password \in FormPasswords, f \in Faults :
          RegCheck(p, email, password, f)
    \/ \E p \in {2, 3}, f \in Faults, salt \in Salts : RegInsert(p, f, salt)
    \/ \E email \in {EmailA, EmailAUpper}, password \in FormPasswords, f \in Faults :
          Authenticate(email, password, f)
    \/ \E i \in 1..Len(users) : Deactivate(i)

SpecAccounts == Init /\ [][NextAccounts]_vars

\* Tokens: users registered one after the other by one session, tokens issued,
\* validated and revoked as the clock advances and users are deactivated.
NextTokens ==
    \/ \E email \in {EmailA, EmailAUpper} : RegCheck(2, email, PwValid, "none")
    \/ RegInsert(2, "none", 1)
    \/ \E email \in {EmailA, EmailAUpper}, password \in {PwValid, PwShort} :
          Authenticate(email, password, "none")
    \/ \E i \in 1..Len(users), f \in Faults : GenerateToken(i, expiry_days, f)
    \/ \E t \in 1..MaxTokens, f \in Faults : ValidateToken(t, f)
    \/ \E t \in 1..MaxTokens, f \in Faults : RevokeToken(t, f)
    \/ Tick
    \/ \E i \in 1..Len(users) : Deactivate(i)

SpecTokens == Init /\ [][NextTokens]_vars

\* Session: the observed browser session registers, logs in, reloads and logs out,
\* while the clock advances and the store has outages.
NextSession ==
    \/ RegCheck(1, EmailA, PwValid, "none")
    \/ RegInsert(1, "none", 1)
    \/ NewSession
    \/ CookiesBecomeReady
    \/ PageNotReady
    \/ \E f \in Faults, fl \in Faults : PageCycle(f, fl)
    \/ \E password \in {PwValid, PwShort}, remember_me \in BOOLEAN,
          fv \in Faults, fa \in Faults, fg \in Faults :
          LoginSubmit(EmailA, password, remember_me, fv, fa, fg)
    \/ ToggleRegister
    \/ \E f \in Faults : Logout(f)
    \/ \E t \in 1..MaxTokens : ValidateToken(t, "none")
    \/ \E t \in 1..MaxTokens : RevokeToken(t, "none")
    \/ Tick
    \/ \E i \in 1..Len(users) : Deactivate(i)

SpecSession == Init /\ [][NextSession]_vars

\* Connections: the operations of AuthManager called one after the other, each
\* store access meeting any of the outcomes of get_mongo_client.
NextConn ==
    \/ \E f \in ConnFaults : RegCheck(2, EmailA, PwValid, f)
    \/ \E f \in ConnFaults : RegInsert(2, f, 1)
    \/ \E password \in FormPasswords, f \in ConnFaults : Authenticate(EmailA, password, f)
    \/ \E i \in 1..Len(users), f \in ConnFaults : GenerateToken(i, expiry_days, f)
    \/ \E t \in 1..MaxTokens, f \in ConnFaults : ValidateToken(t, f)
    \/ \E t \in 1..MaxTokens, f \in ConnFaults : RevokeToken(t, f)

SpecConn == Init /\ [][NextConn]_vars

\* what callers pass to save_to_mongo: nothing, or a plan
PlanInputs == {NoPlan, [id |-> 1, owner |-> 0]}

\* the outcomes of an access to the plan store
PlanFaults == {"none", "error"}

\* Plans: two users of one browser register, log in and out, generate, save,
\* reload and clear meal plans, the plan store having outages.
NextPlans ==
    \/ \E email \in {EmailA, EmailAUpper} : RegCheck(1, email, PwValid, "none")
    \/ RegInsert(1, "none", 1)
    \/ CookiesBecomeReady
    \/ ToggleRegister
    \/ \E fl \in PlanFaults : PageCycle("none", fl)
    \/ \E email \in {EmailA, EmailAUpper} :
          LoginSubmit(email, PwValid, FALSE, "none", "none", "none")
    \/ Logout("none")
    \/ \E fl \in PlanFaults, ok \in BOOLEAN : GeneratePlan(fl, ok)
    \/ \E fl \in PlanFaults, f \in PlanFaults : SavePlan(fl, f)
    \/ \E fl \in PlanFaults, f \in PlanFaults : RefreshFromDatabase(fl, f)
    \/ \E fl \in PlanFaults : ClearHistory(fl)
    \/ \E data \in PlanInputs, f \in PlanFaults : SaveToMongo(data, f)
    \/ \E f \in PlanFaults : LoadFromMongo(history_limit, f)

SpecPlans == Init /\ [][NextPlans]_vars

\* the values of expiry_days that callers of generate_token pass: the default, one
\* day, none, and a negative number of days
ExpiryInputs == {expiry_days, 1, 0, -1}

\* Expiry: tokens issued with every lifetime argument, and validated as the clock
\* advances.
NextExpiry ==
    \/ \E email \in {EmailA, EmailAUpper} : RegCheck(2, email, PwValid, "none")
    \/ RegInsert(2, "none", 1)
    \/ \E i \in 1..Len(users), days \in ExpiryInputs, f \in Faults :
          GenerateToken(i, days, f)
    \/ \E t \in 1..MaxTokens : ValidateToken(t, "none")
    \/ Tick

SpecExpiry == Init /\ [][NextExpiry]_vars

(***************************************************************************)
(* validate_password applied to every password of a bounded set.           *)
(***************************************************************************)
\* 'A', 'a', '1', '!'
PwAlphabet == {65, 97, 49, 33}

PwInputs ==
    Passwords \cup UNION {[1..n -> PwAlphabet] : n \in 0..MaxPwLen}

CheckPassword ==
    /\ pwResult = NotCalled
    /\ pwResult' = validate_password(pwInput)
    /\ UNCHANGED <<authVars, pwInput, emailInput, emailResult>>

InitPw ==
    /\ users = <<>>
    /\ tokens = {}
    /\ issued = 0
    /\ now = 0
    /\ reg = [p \in Threads |-> IdleCall]
    /\ session = InitSession
    /\ cookie = 0
    /\ cookiesReady = FALSE
    /\ last = NoLast
    /\ pwInput \in PwInputs
    /\ pwResult = NotCalled
    /\ emailInput = <<>>
    /\ emailResult = EmailNotChecked
    /\ clients = 0
    /\ plans = <<>>
    /\ generated = 0

NextPw == CheckPassword

SpecPw == InitPw /\ [][NextPw]_vars

(***************************************************************************)
(* validate_email applied to every string of a bounded set.                *)
(***************************************************************************)
\* "user@example.com", "user@@example", "userexample.com", "user@.com"
EmailUser == <<117, 115, 101, 114, 64, 101, 120, 97, 109, 112, 108, 101, 46, 99, 111, 109>>

EmailTwoAt == <<117, 115, 101, 114, 64, 64, 101, 120, 97, 109, 112, 108, 101>>

EmailNoAt == <<117, 115, 101, 114, 101, 120, 97, 109, 112, 108, 101, 46, 99, 111, 109>>

EmailNoDomain == <<117, 115, 101, 114, 64, 46, 99, 111, 109>>

\* 'a', '@', '.', '!', and the line feed
EmailAlphabet == {97, 64, 46, 33, 10}

EmailInputs ==
    {EmailUser, EmailTwoAt, EmailNoAt, EmailNoDomain}
        \cup UNION {[1..n -> EmailAlphabet] : n \in 0..MaxEmailLen}

CheckEmail ==
    /\ ~emailResult.called
    /\ emailResult' = [called |-> TRUE, ok |-> validate_email(emailInput)]
    /\ UNCHANGED <<authVars, pwInput, pwResult, emailInput>>

InitEmail ==
    /\ users = <<>>
    /\ tokens = {}
    /\ issued = 0
    /\ now = 0
    /\ reg = [p \in Threads |-> IdleCall]
    /\ session = InitSession
    /\ cookie = 0
    /\ cookiesReady = FALSE
    /\ last = NoLast
    /\ pwInput = <<>>
    /\ pwResult = NotCalled
    /\ emailInput \in EmailInputs
    /\ emailResult = EmailNotChecked
    /\ clients = 0
    /\ plans = <<>>
    /\ generated = 0

NextEmail == CheckEmail

SpecEmail == InitEmail /\ [][NextEmail]_vars

(***************************************************************************)
(* Properties of registration and login (checked under SpecAccounts).      *)
(***************************************************************************)
WithEmail(email) == {i \in 1..Len(users) : users[i].email = email}

ActiveWithEmail(email) == {i \in WithEmail(email) : users[i].is_active}

\* C1: register_user of a username, a well-formed e-mail address that no user
\* record had and a password meeting the policy, followed at once by
\* authenticate_user with the same address and password, the store being reachable:
\* the login succeeds and returns the registered username and address.
C1_RegisterThenAuthenticate ==
    (last.op = "authenticate_user" /\ last.followsRegister /\ last.fault = "none")
        => /\ last.ok
           /\ last.info.username = last.registeredAs
           /\ last.info.email = last.email

\* a login right after a registration, with a second user record in the store
C1_Witness ==
    /\ last.op = "authenticate_user"
    /\ last.followsRegister
    /\ last.fault = "none"
    /\ last.ok
    /\ Len(users) = 2
    /\ last.info.user_id = 2

\* C2: once a user record holds an e-mail address, a register_user call with that
\* address that starts later (whatever happened in between: other operations,
\* failed calls, deactivation) does not succeed, and fails with "User with this
\* email already exists" when its password meets the policy; the store is
\* reachable during the call.
C2_DuplicateRejected ==
    (last.op = "register_user" /\ last.existed /\ last.checkFault = "none")
        => /\ ~last.ok
           /\ validate_password(last.password).ok
                 => last.message = "User with this email already exists"

\* a second registration of the address of a user who has been deactivated
C2_Witness ==
    /\ last.op = "register_user"
    /\ last.existed
    /\ last.checkFault = "none"
    /\ last.message = "User with this email already exists"
    /\ ActiveWithEmail(last.email) = {}

\* C3: of register_user calls with one e-mail address that run concurrently, each
\* with an existence check that reached the store, exactly one succeeds: a call
\* that succeeds leaves the store with one record of its address.
C3_RaceExactlyOne ==
    (last.op = "register_user" /\ last.ok /\ last.checkFault = "none")
        => Cardinality(WithEmail(last.email)) = 1

\* the cases in which a login must fail: no record of the address, only deactivated
\* records of it, or active records none of which has this password
NoRecord(email) == WithEmail(email) = {}

InactiveOnly(email) == WithEmail(email) # {} /\ ActiveWithEmail(email) = {}

WrongPassword(email, password) ==
    /\ ActiveWithEmail(email) # {}
    /\ \A i \in ActiveWithEmail(email) : ~verify_password(password, users[i].password)

\* C4: authenticate_user, the store being reachable, returns one and the same
\* failure (False, "Invalid email or password", no user info) for an address with
\* no user record, for the address of a deactivated user and for a wrong password.
C4_SameFailureResult ==
    (/\ last.op = "authenticate_user"
     /\ last.fault = "none"
     /\ \/ NoRecord(last.email)
        \/ InactiveOnly(last.email)
        \/ WrongPassword(last.email, last.password))
        => /\ ~last.ok
           /\ last.message = "Invalid email or password"
           /\ last.info = NoInfo

\* a login with the right password of a deactivated user
C4_Witness ==
    /\ last.op = "authenticate_user"
    /\ last.fault = "none"
    /\ InactiveOnly(last.email)
    /\ \E i \in WithEmail(last.email) : verify_password(last.password, users[i].password)
    /\ last.message = "Invalid email or password"

(***************************************************************************)
(* Properties of the tokens (checked under SpecTokens).                    *)
(***************************************************************************)
TokenDocs(token) == {d \in tokens : d.token = token}

IsActiveUser(i) == i \in 1..Len(users) /\ users[i].is_active

\* C5: for a token in the token store whose user is active, a validate_token call
\* that reaches the store returns that user's info at every time before the
\* token's expires_at and None at expires_at and at every later time.
C5_ExpiryDecidesValidity ==
    (last.op = "validate_token" /\ last.fault = "none")
        => \A d \in TokenDocs(last.token) :
              IsActiveUser(d.user_id)
                  => /\ now < d.expires_at => last.info = UserInfo(d.user_id)
                     /\ now >= d.expires_at => last.info = NoInfo

\* a validation, at the very instant of its expiry, of a token of an active user
C5_Witness ==
    /\ last.op = "validate_token"
    /\ last.fault = "none"
    /\ last.info = NoInfo
    /\ \E d \in TokenDocs(last.token) :
          IsActiveUser(d.user_id) /\ now = d.expires_at /\ d.created_at < now

\* C6: a revoke_token(t) that reaches the store leaves no record of t, so that
\* validate_token(t) returns None; a token that has been issued and is not in the
\* store never comes back, and validate_token returns None for a token that is not
\* in the store; revoke_token of a token that is not in the store (revoked before,
\* or never issued) returns and leaves the token store as it was.
C6_RevokedStaysInvalid ==
    /\ [](/\ (last.op = "revoke_token" /\ last.fault = "none")
                => /\ TokenDocs(last.token) = {}
                   /\ validate_token(last.token, "none") = NoInfo
          /\ (last.op = "validate_token" /\ TokenDocs(last.token) = {})
                => last.info = NoInfo)
    /\ [][/\ \A t \in 1..MaxTokens :
                (t <= issued /\ TokenDocs(t) = {})
                    => {d \in tokens' : d.token = t} = {}
          /\ (last'.op = "revoke_token" /\ TokenDocs(last'.token) = {})
                => (tokens' = tokens /\ last'.ok)]_vars

\* a revoke_token that reached the store, of an issued token that was no longer
\* in it, while another token is
C6_Witness ==
    /\ last.op = "revoke_token"
    /\ last.fault = "none"
    /\ ~last.existed
    /\ last.token <= issued
    /\ tokens # {}

\* C7: for a user record with is_active = False, authenticate_user never returns
\* that user and fails for the user's e-mail address and password unless another,
\* active record has them too, and validate_token returns None for every token of
\* that user, expired or not.
C7_InactiveUserLockedOut ==
    \A i \in 1..Len(users) :
        ~users[i].is_active
            => /\ last.op = "authenticate_user"
                     => /\ last.info.user_id # i
                        /\ (last.email = users[i].email
                            /\ ActiveWithEmail(last.email) = {}) => ~last.ok
               /\ last.op = "validate_token"
                     => \A d \in TokenDocs(last.token) :
                            d.user_id = i => last.info = NoInfo

\* a validation that reached the store, of an unexpired token of a deactivated user
C7_Witness ==
    /\ last.op = "validate_token"
    /\ last.fault = "none"
    /\ last.info = NoInfo
    /\ \E d \in TokenDocs(last.token) :
          /\ d.expires_at > now
          /\ d.user_id \in 1..Len(users)
          /\ ~users[d.user_id].is_active

(***************************************************************************)
(* Properties of validate_password (checked under SpecPw).                 *)
(***************************************************************************)
\* the characters ! @ # $ % ^ & * ( ) _ + - =
ListedSpecials == {33, 64, 35, 36, 37, 94, 38, 42, 40, 41, 95, 43, 45, 61}


MeetsPolicy(password) ==
    /\ Len(password) >= 8
    /\ Search(65..90, password)
    /\ Search(97..122, password)
    /\ Search(48..57, password)
    /\ Search(ListedSpecials, password)

\* C8: validate_password accepts a password exactly when it has at least 8
\* characters, an uppercase letter, a lowercase letter, a digit and one of the
\* characters !@#$%^&*()_+-= ; it rejects "NoSpecial123" and accepts "Valid123!".
C8_PasswordPolicy ==
    pwResult # NotCalled
        => /\ pwResult.ok <=> MeetsPolicy(pwInput)
           /\ pwInput = PwNoSpecial => ~pwResult.ok
           /\ pwInput = PwValid => pwResult.ok

(***************************************************************************)
(* Properties of the session bridge (checked under SpecSession).           *)
(***************************************************************************)
\* C9: after a logout during which the store is reachable, the session is not
\* authenticated and has no user info and no token, the cookie store has no
\* auth_token, and neither the token the session held nor the token the cookie
\* held before the logout validates.
C9_LogoutRevokesHeldTokens ==
    (last.op = "logout" /\ last.fault = "none")
        => /\ ~session.authenticated
           /\ session.user_info = NoInfo
           /\ session.auth_token = 0
           /\ cookie = 0
           /\ validate_token(last.heldSession, "none") = NoInfo
           /\ validate_token(last.heldCookie, "none") = NoInfo

\* C10: a page cycle of an unauthenticated session whose cookie holds a token that
\* validate_token accepts authenticates the session as the token's user and records
\* the cookie's token as the session's token; no token is issued, and the token
\* store and the cookie stay as they were.
C10_RestoreKeepsToken ==
    [][(/\ last'.op = "page"
        /\ ~session.authenticated
        /\ validate_token(cookie, last'.fault) # NoInfo)
          => /\ session'.authenticated
             /\ session'.user_info = validate_token(cookie, "none")
             /\ session'.auth_token = cookie
             /\ tokens' = tokens
             /\ issued' = issued
             /\ cookie' = cookie]_vars

\* a session restored from the cookie after a reload
C10_Witness ==
    /\ last.op = "page"
    /\ last.restored
    /\ session.authenticated
    /\ cookie # 0
    /\ session.auth_token = cookie
    /\ session.user_info = validate_token(cookie, "none")

\* C11: a login with remember-me checked in which authenticate_user succeeds and
\* generate_token stores no token (the store is unreachable or the insert raises):
\* generate_token returns None, the session becomes authenticated with the user's
\* info, its auth_token stays None and the cookie store is left as it was.
C11_LoginSurvivesTokenFailure ==
    [][(/\ last'.op = "login"
        /\ last'.ok
        /\ last'.remember
        /\ tokens' = tokens)
          => /\ last'.token = 0
             /\ session'.authenticated
             /\ session'.user_info = last'.info
             /\ session'.user_info # NoInfo
             /\ session.auth_token = 0
             /\ session'.auth_token = 0
             /\ cookie' = cookie]_vars

\* a session logged in with remember-me that has no token and no cookie
C11_Witness ==
    /\ last.op = "login"
    /\ last.ok
    /\ last.remember
    /\ last.token = 0
    /\ session.authenticated
    /\ session.user_info = last.info
    /\ session.auth_token = 0
    /\ cookie = 0

(***************************************************************************)
(* Properties of the handling of store faults (checked under SpecAccounts).*)
(***************************************************************************)
\* the messages with which register_user and authenticate_user report a store fault
DatabaseUnavailable ==
    {"Database connection failed", "Registration failed: <exception>",
     "Authentication failed: <exception>"}

\* C12: a register_user call during which a store access faults (inside the
\* existence check or at the insert) and an authenticate_user call whose store
\* access faults return a failure with a store-fault message, never success.
C12_StoreFaultIsFailure ==
    /\ (last.op = "register_user" /\ (last.checkFault # "none" \/ last.fault # "none"))
          => (~last.ok /\ last.message \in DatabaseUnavailable)
    /\ (last.op = "authenticate_user" /\ last.fault # "none")
          => (~last.ok /\ last.message \in DatabaseUnavailable /\ last.info = NoInfo)

(***************************************************************************)
(* Further properties of the tokens (checked under SpecTokens).            *)
(***************************************************************************)
\* C13: generate_token leaves every earlier token in the store and revoke_token(t)
\* removes no token other than t, and after either call every other token in the
\* store that is unexpired and whose user is active validates as its user.
C13_TokensIndependent ==
    /\ [][(last'.op \in {"generate_token", "revoke_token"})
            => \A d \in tokens : d.token # last'.token => d \in tokens']_vars
    /\ []((last.op \in {"generate_token", "revoke_token"})
            => \A d \in tokens :
                  (d.token # last.token /\ d.expires_at > now /\ IsActiveUser(d.user_id))
                      => validate_token(d.token, "none") = UserInfo(d.user_id))

\* one of two tokens of the only user has been revoked and the other validates
C13_Witness ==
    /\ last.op = "revoke_token"
    /\ last.fault = "none"
    /\ last.existed
    /\ issued = 2
    /\ Len(users) = 1
    /\ \E d \in tokens :
          /\ d.token # last.token
          /\ d.user_id = 1
          /\ validate_token(d.token, "none") = UserInfo(1)

\* C14: a validate_token call, whatever it returns, leaves the token store and the
\* user store as they were; no token's expires_at ever changes.
C14_ValidateReadOnly ==
    [][/\ (last'.op = "validate_token") => (tokens' = tokens /\ users' = users)
       /\ \A d \in tokens : \A e \in tokens' :
             e.token = d.token => e.expires_at = d.expires_at]_vars

\* a validation that returned the user's info for a token issued 15 days earlier
C14_Witness ==
    /\ last.op = "validate_token"
    /\ last.ok
    /\ \E d \in TokenDocs(last.token) :
          /\ d.created_at < now
          /\ d.expires_at = d.created_at + expiry_days
          /\ last.info = UserInfo(d.user_id)

(***************************************************************************)
(* Further properties of registration (checked under SpecAccounts).        *)
(***************************************************************************)
\* C15: a register_user call that returns a failure leaves the user store as it
\* was; a call that returns success appends one record, active and with the
\* username and the e-mail address given, and changes no other record.
C15_RegisterFrame ==
    [][(last'.op = "register_user")
         => IF last'.ok
            THEN /\ Len(users') = Len(users) + 1
                 /\ SubSeq(users', 1, Len(users)) = users
                 /\ users'[Len(users')].is_active
                 /\ users'[Len(users')].username = last'.username
                 /\ users'[Len(users')].email = last'.email
            ELSE users' = users]_vars

\* a registration that failed at the insert, after another one had succeeded
C15_Witness ==
    /\ last.op = "register_user"
    /\ ~last.ok
    /\ last.fault # "none"
    /\ Len(users) = 1
    /\ users[1].is_active
    /\ users[1].username # last.username

(***************************************************************************)
(* Properties of the e-mail addresses in the user store (checked under     *)
(* SpecTokens, where registrations run one after the other and reach the   *)
(* store).                                                                 *)
(***************************************************************************)
\* str.lower on the letters A-Z
ToLower(c) == IF c \in 65..90 THEN c + 32 ELSE c

Lower(s) == [k \in 1..Len(s) |-> ToLower(s[k])]

\* C16: every user record's e-mail address is in lower case, no two user records
\* have addresses that are equal up to letter case, and a register_user of an
\* address that differs only in case from a registered one fails with "User with
\* this email already exists".
C16_EmailsUniqueUpToCase ==
    /\ \A i \in 1..Len(users) : users[i].email = Lower(users[i].email)
    /\ \A i, j \in 1..Len(users) :
          Lower(users[i].email) = Lower(users[j].email) => i = j
    /\ (/\ last.op = "register_user"
        /\ \E i \in 1..Len(users) :
              /\ users[i].email # last.email
              /\ Lower(users[i].email) = Lower(last.email))
          => (~last.ok /\ last.message = "User with this email already exists")

(***************************************************************************)
(* Further properties of the session bridge (checked under SpecSession).   *)
(***************************************************************************)
\* C17: the session starts unauthenticated, and a step in which it becomes
\* authenticated is either a login submitted with the e-mail address and the
\* password of an active user record, the store being reachable, or a page cycle
\* in which validate_token returns user info for the cookie's token; the session's
\* user is then that user.  Every other step (a failed login, a failed restore, a
\* registration, any other action) leaves an unauthenticated session so.
C17_AuthenticatedOnlyByLoginOrRestore ==
    /\ ~session.authenticated
    /\ [][(~session.authenticated /\ session'.authenticated)
            => \/ /\ last'.op = "login"
                  /\ last'.ok
                  /\ last'.fault = "none"
                  /\ \E i \in ActiveWithEmail(last'.email) :
                        /\ verify_password(last'.password, users[i].password)
                        /\ session'.user_info = UserInfo(i)
               \/ /\ last'.op = "page"
                  /\ cookie # 0
                  /\ validate_token(cookie, last'.fault) # NoInfo
                  /\ session'.user_info = validate_token(cookie, last'.fault)]_vars

\* a session authenticated by a login without remember-me
C17_Witness ==
    /\ last.op = "login"
    /\ last.ok
    /\ ~last.remember
    /\ session.authenticated
    /\ session.user_info = last.info
    /\ session.user_info # NoInfo

(***************************************************************************)
(* Properties of validate_email (checked under SpecEmail).                 *)
(***************************************************************************)
\* the position of the only '@' of s (0 when there is none or more than one)
AtPosition(s) ==
    IF Cardinality({k \in 1..Len(s) : s[k] = 64}) = 1
    THEN CHOOSE k \in 1..Len(s) : s[k] = 64
    ELSE 0

\* the position of the last '.' of s (0 when there is none)
LastDot(s) ==
    IF \E k \in 1..Len(s) : s[k] = 46
    THEN CHOOSE k \in 1..Len(s) : s[k] = 46 /\ \A m \in (k + 1)..Len(s) : s[m] # 46
    ELSE 0

\* local@domain.tld: a non-empty local part of letters, digits and . _ % + -, one
\* '@', a non-empty domain of letters, digits, '.' and '-', a dot, and a top-level
\* part of at least two letters
LocalAtDomainDotTld(s) ==
    LET at == AtPosition(s)
        dot == LastDot(s)
    IN  /\ at > 1
        /\ dot > at + 1
        /\ Len(s) - dot >= 2
        /\ \A k \in 1..(at - 1) : s[k] \in (65..90) \cup (97..122) \cup (48..57) \cup {46, 95, 37, 43, 45}
        /\ \A k \in (at + 1)..(dot - 1) : s[k] \in (65..90) \cup (97..122) \cup (48..57) \cup {46, 45}
        /\ \A k \in (dot + 1)..Len(s) : s[k] \in (65..90) \cup (97..122)

\* C18: validate_email accepts a string exactly when it has the form
\* local@domain.tld; it rejects every string with two '@', with no '@' or with
\* nothing between the '@' and the final dot; it accepts "user@example.com" and
\* rejects "user@@example", "userexample.com" and "user@.com".
C18_EmailForm ==
    emailResult.called
        => /\ emailResult.ok <=> LocalAtDomainDotTld(emailInput)
           /\ Cardinality({k \in 1..Len(emailInput) : emailInput[k] = 64}) # 1
                 => ~emailResult.ok
           /\ (AtPosition(emailInput) > 0
               /\ LastDot(emailInput) = AtPosition(emailInput) + 1) => ~emailResult.ok
           /\ emailInput = EmailUser => emailResult.ok
           /\ emailInput \in {EmailTwoAt, EmailNoAt, EmailNoDomain} => ~emailResult.ok

(***************************************************************************)
(* Properties of the store connections (checked under SpecConn).           *)
(***************************************************************************)
\* C19: whenever an operation of AuthManager has returned, whatever the outcome of
\* its store accesses, no MongoClient that it constructed is left unclosed.
C19_NoClientLeftOpen == clients = 0

(***************************************************************************)
(* Properties of the start of a page cycle (checked under SpecSession).    *)
(***************************************************************************)
\* what the session bridge does once the cookie store is ready: the restore from
\* the cookie, the forms and their handlers, the logout
BridgeOps == {"page", "login", "logout", "toggle_register", "register_user", "user_exists"}

\* C20: while cookies.ready() is false the session is as init_session_state left
\* it; no step taken then is a restore from the cookie, a form or its handler, or a
\* logout, and a page cycle then stops with the session, the cookie, the stores
\* and the readiness unchanged.
C20_NotReadyDefers ==
    /\ [](~cookiesReady => session = InitSession)
    /\ [][~cookiesReady
            => /\ last'.op \notin BridgeOps
               /\ cookie' = cookie
               /\ session' = InitSession
               /\ (last'.op = "page_stopped")
                     => UNCHANGED <<session, cookie, tokens, users, issued, cookiesReady>>]_vars

\* a page cycle that stopped while the cookie held a token that validates
C20_Witness ==
    /\ last.op = "page_stopped"
    /\ ~cookiesReady
    /\ ~session.authenticated
    /\ cookie # 0
    /\ validate_token(cookie, "none") # NoInfo

(***************************************************************************)
(* Properties of the lifetime of tokens (checked under SpecExpiry).        *)
(***************************************************************************)
\* C21: every token record in the token store has expires_at > created_at, whoever
\* its user and whatever the expiry_days argument generate_token was given.
C21_ExpiresAfterCreated == \A d \in tokens : d.expires_at > d.created_at

(***************************************************************************)
(* Invariants of the session state (checked under SpecSession).            *)
(***************************************************************************)
\* C22: in every state the session is authenticated exactly when it has user info,
\* and a session that has an auth_token is authenticated and the auth_token cookie
\* holds that token.
C22_SessionConsistent ==
    /\ session.authenticated <=> session.user_info # NoInfo
    /\ session.auth_token # 0
          => (session.authenticated /\ cookie = session.auth_token)

\* a login with remember-me that replaced the token of an earlier login in the cookie
C22_Witness ==
    /\ last.op = "login"
    /\ last.token # 0
    /\ last.heldCookie # 0
    /\ last.heldCookie # last.token
    /\ session.authenticated
    /\ session.auth_token = last.token
    /\ cookie = last.token

\* C23: an authenticated session stays authenticated, as the same user, in every
\* step other than its logout and a reload of the browser, whatever happens to its
\* token and its user in the stores; a page cycle of an authenticated session
\* restores nothing from the cookie and leaves the session and the stores as they
\* were.
C23_NoRevalidation ==
    [][session.authenticated
         => /\ (last'.op \notin {"logout", "new_session"})
                  => (session'.authenticated /\ session'.user_info = session.user_info)
            /\ (last'.op = "page")
                  => (~last'.restored /\ session' = session
                      /\ tokens' = tokens /\ cookie' = cookie)]_vars

\* a page cycle of an authenticated session whose token no longer validates, the
\* token having expired or been revoked or the user having been deactivated
C23_Witness ==
    /\ last.op = "page"
    /\ session.authenticated
    /\ session.auth_token # 0
    /\ validate_token(session.auth_token, "none") = NoInfo

(***************************************************************************)
(* Properties of the meal plans of the session (checked under SpecPlans).  *)
(***************************************************************************)
\* C24: a session that is not authenticated has no history and no latest plan, in
\* particular after a logout; every entry of the history, and the latest plan, of
\* an authenticated session was generated for, or loaded from the plan store for,
\* the user_id of the session's user.
C24_PlansOfCurrentUserOnly ==
    /\ ~session.authenticated
          => (session.history = <<>> /\ session.latest_plan = NoPlan)
    /\ last.op = "logout"
          => (session.history = <<>> /\ session.latest_plan = NoPlan)
    /\ \A k \in 1..Len(session.history) :
          /\ session.history[k].owner # 0
          /\ session.history[k].owner = get_current_user_id(session)
    /\ session.latest_plan # NoPlan
          => session.latest_plan.owner = get_current_user_id(session)

\* the second user of the browser, logged in after the first one saved a plan,
\* with a history loaded from the plan store
C24_Witness ==
    /\ last.op = "page"
    /\ get_current_user_id(session) = 2
    /\ session.history # <<>>
    /\ \E k \in 1..Len(plans) : plans[k].user_id = 1
    /\ \E k \in 1..Len(plans) :
          plans[k].user_id = 2 /\ session.history[1] = EntryOf(plans[k])

\* C25: save_to_mongo, called with a session that is not authenticated or has no
\* user info, returns False and writes nothing; whenever it writes, it appends one
\* document, which carries the user_id of the session; load_from_mongo returns only
\* entries made from documents whose user_id is the session's, and an empty list
\* for a session that is not authenticated.  No document has no user_id.
C25_PlansScopedToUser ==
    /\ [](\A k \in 1..Len(plans) : plans[k].user_id # 0)
    /\ [][/\ (last'.op \in {"save_to_mongo", "save_plan"})
                => /\ get_current_user_id(session) = 0
                         => (~last'.ok /\ plans' = plans)
                   /\ \/ ~last'.ok /\ plans' = plans
                      \/ /\ last'.ok
                         /\ Len(plans') = Len(plans) + 1
                         /\ SubSeq(plans', 1, Len(plans)) = plans
                         /\ plans'[Len(plans')].user_id = get_current_user_id(session)
                         /\ plans'[Len(plans')].id = last'.data.id
          /\ (last'.op \in {"load_from_mongo", "refresh"})
                => /\ get_current_user_id(session) = 0 => last'.loaded = <<>>
                   /\ \A k \in 1..Len(last'.loaded) :
                         /\ last'.loaded[k].owner = get_current_user_id(session)
                         /\ \E m \in 1..Len(plans) :
                               /\ plans[m].user_id = get_current_user_id(session)
                               /\ last'.loaded[k] = EntryOf(plans[m])]_vars

\* a call of save_to_mongo with a plan and the store reachable, refused because the
\* session is not authenticated, while the store holds a plan of a user
C25_Witness ==
    /\ last.op = "save_to_mongo"
    /\ last.fault = "none"
    /\ last.data # NoPlan
    /\ ~last.ok
    /\ ~session.authenticated
    /\ plans # <<>>

\* C26: in every state the session's latest_plan is None exactly when its history
\* is empty, and is the first entry of the history otherwise: after a generation,
\* a load or a refresh from the plan store, Clear History and a logout.
C26_LatestIsHeadOfHistory ==
    /\ session.latest_plan = NoPlan <=> session.history = <<>>
    /\ session.history # <<>> => session.latest_plan = session.history[1]

\* a plan generated into a history that had an entry: the new plan is the latest
\* and the first of two
C26_Witness ==
    /\ last.op = "generate_plan"
    /\ last.ok
    /\ Len(session.history) = 2
    /\ session.latest_plan = last.data
    /\ session.history[1] = last.data
    /\ session.history[2] # last.data

====
